---- MODULE Spec2Model ----
(***************************************************************************)
(* Model of the Rsvg facade of src/index.js: one facade object layered on  *)
(* the native rendering engine (the `rsvg` binding).  The facade's code is *)
(* translated statement by statement; the engine, which is not part of     *)
(* src/, is an environment whose answers are drawn nondeterministically.   *)
(***************************************************************************)
EXTENDS Integers, Sequences, FiniteSets, TLC

VARIABLES
    phase,      \* "new" | "ready" | "failed": before / after `new Rsvg(buffer)`
    handle,     \* this._handle: the engine's state for the document
    pc,         \* "idle" | "render": "render" while the recursion of line 186 is pending
    frame,      \* the argument of the pending recursive render(options) call
    call,       \* the facade call the caller made last: [op, args]
    ret,        \* what that call gave the caller: nothing yet, a value, or a throw
    reqs,       \* the requests handed to the engine's render during that call
    empties,    \* how many of the engine's answers during that call had empty data
    ghost       \* history: engine parse/close counts, calls made while loading, size at construction

vars == <<phase, handle, pc, frame, call, ret, reqs, empties, ghost>>

(***************************************************************************)
(* Bounds of the model.                                                    *)
(***************************************************************************)
\* The engine answers at most MaxEmpty times in a row with an empty payload.
MaxEmpty == 2
\* Engine geometry is a whole number of 10^-RawDigits units.
RawDigits == 4

(***************************************************************************)
(* JavaScript values.                                                      *)
(***************************************************************************)
Undef == [t |-> "undefined"]
Null == [t |-> "null"]
Num(n) == [t |-> "number", v |-> n]
\* A string is the sequence of its UTF-16 code units, each a one-character string.
Str(s) == [t |-> "string", v |-> s]
\* A Buffer is the sequence of its bytes.
Buf(b) == [t |-> "buffer", v |-> b]
\* A plain object is the function from its property names to their values.
Obj(f) == [t |-> "object", v |-> f]
Bool(b) == [t |-> "boolean", v |-> b]
EmptyObject == Obj(<<>>)

\* typeof v
TypeOf(v) ==
    CASE v.t = "undefined" -> "undefined"
      [] v.t = "number" -> "number"
      [] v.t = "string" -> "string"
      [] v.t = "boolean" -> "boolean"
      [] OTHER -> "object"

\* ToBoolean(v), as `v ? a : b` and `v || d` apply it
Truthy(v) ==
    CASE v.t \in {"undefined", "null"} -> FALSE
      [] v.t = "number" -> v.v # 0
      [] v.t = "string" -> v.v # <<>>
      [] v.t = "boolean" -> v.v
      [] OTHER -> TRUE

\* Buffer.isBuffer(v)
IsBuffer(v) == v.t = "buffer"

\* o.p: a property that is absent reads as undefined
Prop(o, p) == IF o.t = "object" /\ p \in DOMAIN o.v THEN o.v[p] ELSE Undef

\* arguments[i] of a call: a parameter past arguments.length is undefined
Arg(args, i) == IF i <= Len(args) THEN args[i] ELSE Undef

UpperCase ==
    <<"A", "B", "C", "D", "E", "F", "G", "H", "I", "J", "K", "L", "M",
      "N", "O", "P", "Q", "R", "S", "T", "U", "V", "W", "X", "Y", "Z">>
LowerCase ==
    <<"a", "b", "c", "d", "e", "f", "g", "h", "i", "j", "k", "l", "m",
      "n", "o", "p", "q", "r", "s", "t", "u", "v", "w", "x", "y", "z">>

LowerChar(c) ==
    IF \E i \in DOMAIN UpperCase : UpperCase[i] = c
    THEN LowerCase[CHOOSE i \in DOMAIN UpperCase : UpperCase[i] = c]
    ELSE c

\* String.prototype.toLowerCase
toLowerCase(s) == Str([i \in DOMAIN s.v |-> LowerChar(s.v[i])])

\* One code point as UTF-8 (code points below 0x800 are enough here).
Utf8(cp) == IF cp < 128 THEN <<cp>> ELSE <<192 + (cp \div 64), 128 + (cp % 64)>>

RECURSIVE Utf8All(_)
Utf8All(cps) == IF cps = <<>> THEN <<>> ELSE Utf8(Head(cps)) \o Utf8All(Tail(cps))

\* Buffer.from(string): the string's UTF-8 bytes.  A source text is the
\* sequence of its code points.
BufferFrom(s) == Buf(Utf8All(s.v))

(***************************************************************************)
(* What a call gives its caller.                                           *)
(***************************************************************************)
Nothing == [kind |-> "none"]
Value(v) == [kind |-> "value", value |-> v]
\* An exception: its constructor's name and its message, the message as the
\* sequence of the pieces it was concatenated from.
Throw(name, message) == [kind |-> "throw", name |-> name, message |-> message]

(***************************************************************************)
(* The engine: the native binding behind this._handle.  Its code is not in *)
(* src/; it is modelled from the design's section 6, and every answer that *)
(* depends on the document's content is a nondeterministic choice.         *)
(***************************************************************************)
\* "the default value ... (usually 90)"
DefaultDPI == 90

NoHandle == [stage |-> "none"]

\* Intrinsic sizes a document may declare.
Sizes == {0, 100}
\* Diagnostics the engine may raise while loading.
EngineMessages == {"XML parse error", "Out of memory"}
\* Subelement ids the document holds.
DocElements == {Str(<<"#", "a">>)}

\* parse(bytes) -> Handle | ParseError
ParseOutcomes ==
    {[ok |-> TRUE, width |-> w, height |-> h] : w \in Sizes, h \in Sizes}
        \cup {[ok |-> FALSE, message |-> m] : m \in EngineMessages}

\* releaseLoadResources(Handle): succeeds, or raises a diagnostic
CloseOutcomes == {[ok |-> TRUE]} \cup {[ok |-> FALSE, message |-> m] : m \in EngineMessages}

\* new binding.Rsvg(buffer), when the parse succeeds.  The handle keeps what
\* later calls can tell apart; the bytes themselves are never read back.
EngineNew(bytes, p) ==
    [stage |-> "loading", width |-> p.width, height |-> p.height,
     dpiX |-> DefaultDPI, dpiY |-> DefaultDPI, baseURI |-> Undef]

\* handle.close(): the load phase ends, the document stays usable
EngineClose(h) == [h EXCEPT !.stage = "ready"]

EngineGetBaseURI(h) == h.baseURI
EngineSetBaseURI(h, value) == [h EXCEPT !.baseURI = value]
EngineGetWidth(h) == h.width
EngineGetHeight(h) == h.height
EngineGetDPIX(h) == h.dpiX
EngineGetDPIY(h) == h.dpiY
EngineGetDPI(h) == [x |-> h.dpiX, y |-> h.dpiY]

\* One axis of the resolution: null (or undefined) resets it to the default,
\* a number, zero included, sets it.
DPIAxis(value) == IF value.t = "number" THEN value.v ELSE DefaultDPI

EngineSetDPIX(h, value) == [h EXCEPT !.dpiX = DPIAxis(value)]
EngineSetDPIY(h, value) == [h EXCEPT !.dpiY = DPIAxis(value)]
\* setDPI(x, y): y left out means y = x
EngineSetDPI(h, x, y) ==
    [h EXCEPT !.dpiX = DPIAxis(x), !.dpiY = DPIAxis(IF y = Undef THEN x ELSE y)]

EngineHasElement(h, id) == id \in DocElements

\* The formats the engine renders, each as the string that names it.
EngineFormats ==
    {<<"r", "a", "w">>, <<"p", "n", "g">>, <<"p", "d", "f">>, <<"s", "v", "g">>,
     <<"a", "r", "g", "b", "3", "2">>, <<"r", "g", "b", "2", "4">>, <<"a", "8">>,
     <<"a", "1">>, <<"r", "g", "b", "1", "6", "_", "5", "6", "5">>,
     <<"r", "g", "b", "3", "0">>}

\* The payloads the engine may produce: none at all, or some bytes.
Payloads == {<<>>, <<137, 80>>}

\* handle.render(width, height, format, id), the engine producing `payload`:
\* no format (null or undefined) is the default, raw; a format outside
\* EngineFormats is refused; a size left out is the document's own.
EngineRender(h, width, height, format, id, payload) ==
    IF format.t = "string" /\ format.v \notin EngineFormats
    THEN Throw("UnsupportedFormat", <<"Invalid argument: format">>)
    ELSE Value([data |-> payload,
                format |-> IF format.t = "string" THEN format.v ELSE <<"r", "a", "w">>,
                width |-> IF width.t = "number" THEN width.v ELSE h.width,
                height |-> IF height.t = "number" THEN height.v ELSE h.height])

(***************************************************************************)
(* Geometry.  A coordinate is a whole number of 10^-RawDigits units; the   *)
(* facade rounds to Digits decimal digits.                                 *)
(***************************************************************************)
\* the 3 of toFixed(3)
Digits == 3

RECURSIVE Pow10(_)
Pow10(n) == IF n <= 0 THEN 1 ELSE 10 * Pow10(n - 1)

\* Raw units in one unit of the last digit toFixed keeps.
Scale == Pow10(RawDigits - Digits)

Abs(x) == IF x < 0 THEN -x ELSE x

\* x.toFixed(Digits): the decimal string, as its sign, integer part and
\* Digits fraction digits; the digits are those of the nearest n / 10^Digits,
\* the larger n on a tie.
toFixed(x) ==
    LET n == (2 * Abs(x) + Scale) \div (2 * Scale)
    IN [neg |-> x < 0, int |-> n \div Pow10(Digits), frac |-> n % Pow10(Digits)]

\* s * 1: the decimal string read back as a number
TimesOne(s) ==
    (IF s.neg THEN -1 ELSE 1) * (s.int * Pow10(Digits) + s.frac) * Scale

\* Offsets and sizes the engine may report, in raw units: on and beside the
\* ties of the rounding, negative and positive.
RawXY == {<<-15, -5>>, <<-5, 4>>, <<4, -15>>}
RawWH == {<<5, 12344>>, <<12345, 5>>, <<12344, 12345>>}

\* autocrop(Handle) / dimensions(Handle, id?): any box
RawBoxes ==
    {[x |-> o[1], y |-> o[2], width |-> e[1], height |-> e[2]] :
        o \in RawXY, e \in RawWH}

(***************************************************************************)
(* The facade.                                                             *)
(***************************************************************************)
Init ==
    /\ phase = "new"
    /\ handle = NoHandle
    /\ pc = "idle"
    /\ frame = Undef
    /\ call = [op |-> "none", args |-> <<>>, answer |-> Nothing]
    /\ ret = Nothing
    /\ reqs = <<>>
    /\ empties = 0
    /\ ghost = [parse |-> 0, close |-> 0, early |-> FALSE, width |-> 0, height |-> 0]

\* What the caller may pass to the constructor: a buffer, source texts (one
\* with a character outside ASCII), and values of other types.
CtorInputs ==
    {Buf(<<60, 115>>), Str(<<60, 115>>), Str(<<60, 233>>), Num(42), Null, Undef,
     EmptyObject}

\* new Error(`Rsvg load failure: ${error.message}`), without the diagnostic
LoadFailure_noDiagnostic(message) == Throw("Error", <<"Rsvg load failure: ">>)

\* new Error(`Rsvg load failure: ${error.message}`)
LoadFailure(message) == Throw("Error", <<"Rsvg load failure: ", message>>)

\* The try block with the close() call left out.
Load_noClose(bytes, p, c) ==
    IF ~p.ok
    THEN [handle |-> NoHandle, thrown |-> LoadFailure(p.message), parse |-> 1, close |-> 0]
    ELSE [handle |-> EngineNew(bytes, p), thrown |-> Nothing, parse |-> 1, close |-> 0]

\* The try block of the constructor, the engine answering the parse with p
\* and the close with c: the handle the object ends with, what the catch
\* clause throws, and how often the engine was asked to parse and to close.
Load(bytes, p, c) ==
    IF ~p.ok
    THEN [handle |-> NoHandle, thrown |-> LoadFailure(p.message), parse |-> 1, close |-> 0]
    ELSE IF ~c.ok
    THEN [handle |-> EngineNew(bytes, p), thrown |-> LoadFailure(c.message),
          parse |-> 1, close |-> 1]
    ELSE [handle |-> EngineClose(EngineNew(bytes, p)), thrown |-> Nothing,
          parse |-> 1, close |-> 1]

\* new Rsvg(buffer).  A constructor that throws leaves no object behind.
constructor(buffer) ==
    /\ phase = "new"
    /\ LET b == IF TypeOf(buffer) = "string" THEN BufferFrom(buffer) ELSE buffer
       IN  IF ~IsBuffer(b)
           THEN /\ call' = [op |-> "new", args |-> <<buffer>>, answer |-> Nothing]
                /\ phase' = "failed"
                /\ handle' = NoHandle
                /\ ret' = Throw("TypeError",
                                <<"buffer should be a Buffer instance or a string">>)
                /\ ghost' = ghost
           ELSE \E p \in ParseOutcomes, c \in CloseOutcomes :
                LET l == Load(b.v, p, c)
                IN  /\ call' = [op |-> "new", args |-> <<buffer>>,
                                 answer |-> [bytes |-> b.v, parse |-> p, close |-> c]]
                    /\ phase' = IF l.thrown = Nothing THEN "ready" ELSE "failed"
                    /\ handle' = IF l.thrown = Nothing THEN l.handle ELSE NoHandle
                    /\ ret' = l.thrown
                    /\ ghost' = [ghost EXCEPT !.parse = @ + l.parse,
                                              !.close = @ + l.close,
                                              !.width = IF p.ok THEN EngineGetWidth(l.handle) ELSE @,
                                              !.height = IF p.ok THEN EngineGetHeight(l.handle) ELSE @]
    /\ UNCHANGED <<pc, frame, reqs, empties>>

\* The facade can take a call: it was constructed and no call is under way.
Ready == phase = "ready" /\ pc = "idle"

\* A call on the handle made before its load phase was closed is remembered.
Touched == [ghost EXCEPT !.early = @ \/ handle.stage # "ready"]

\* A facade call that is not a render returns r to the caller; `answer` is
\* what the engine answered, where the facade works on it.
Answered(op, args, answer, r) ==
    /\ call' = [op |-> op, args |-> args, answer |-> answer]
    /\ ret' = r
    /\ reqs' = <<>>
    /\ empties' = 0
    /\ ghost' = Touched
    /\ UNCHANGED <<phase, pc, frame>>

Return(op, args, r) == Answered(op, args, Nothing, r)

\* get width () with the getter of dpiX pasted in
width_asDPIX == EngineGetDPIX(handle)

\* get width ()
width == EngineGetWidth(handle)

\* get height ()
height == EngineGetHeight(handle)

\* get baseURI ()
baseURI == EngineGetBaseURI(handle)

get_baseURI == Ready /\ Return("get baseURI", <<>>, Value(baseURI)) /\ UNCHANGED handle

\* Base URIs the caller may set.
BaseURIs == {Str(<<"f", "i", "l", "e", ":", "/", "/", "/">>)}

set_baseURI(value) ==
    /\ Ready
    /\ handle' = EngineSetBaseURI(handle, value)
    /\ Return("set baseURI", <<value>>, Value(Undef))

get_dpiX == Ready /\ Return("get dpiX", <<>>, Value(Num(EngineGetDPIX(handle)))) /\ UNCHANGED handle

\* Resolutions the caller may set: a reset, 300.
DPIInputs == {Null, Num(300)}

set_dpiX(value) ==
    /\ Ready
    /\ handle' = EngineSetDPIX(handle, value)
    /\ Return("set dpiX", <<value>>, Value(Undef))

get_dpiY == Ready /\ Return("get dpiY", <<>>, Value(Num(EngineGetDPIY(handle)))) /\ UNCHANGED handle

set_dpiY(value) ==
    /\ Ready
    /\ handle' = EngineSetDPIY(handle, value)
    /\ Return("set dpiY", <<value>>, Value(Undef))

get_width == Ready /\ Return("get width", <<>>, Value(Num(width))) /\ UNCHANGED handle

get_height == Ready /\ Return("get height", <<>>, Value(Num(height))) /\ UNCHANGED handle

getDPI == Ready /\ Return("getDPI", <<>>, Value(EngineGetDPI(handle))) /\ UNCHANGED handle

setDPI(x, y) ==
    /\ Ready
    /\ handle' = EngineSetDPI(handle, x, y)
    /\ Return("setDPI", <<x, y>>, Value(Undef))

\* Subelement ids the caller may name: none, one the document holds, one it lacks.
Ids == {Undef, Str(<<"#", "a">>), Str(<<"#", "m">>)}

\* dimensions(Handle, id?): any box, or a refusal of an id the document lacks
EngineDimensions(h, id) ==
    IF id.t = "string" /\ ~EngineHasElement(h, id)
    THEN {Throw("SubelementNotFound", <<"Invalid argument: id">>)}
    ELSE {Value(area) : area \in RawBoxes}

\* dimensions (id): what the engine answers goes to the caller as it is.
dimensions(id) ==
    /\ Ready
    /\ \E answer \in EngineDimensions(handle, id) :
          Answered("dimensions", <<id>>, answer, answer)
    /\ UNCHANGED handle

hasElement(id) ==
    /\ Ready
    /\ Return("hasElement", <<id>>, Value(Bool(EngineHasElement(handle, id))))
    /\ UNCHANGED handle

\* The body of autocrop with the rounding left out.
Rounded_asIs(area) == area

\* The body of autocrop after the engine's answer: each field through
\* toFixed(3) * 1.
Rounded(area) ==
    [x |-> TimesOne(toFixed(area.x)),
     y |-> TimesOne(toFixed(area.y)),
     width |-> TimesOne(toFixed(area.width)),
     height |-> TimesOne(toFixed(area.height))]

\* autocrop (): the call records the engine's answer beside the result.
autocrop ==
    /\ Ready
    /\ \E area \in RawBoxes :
          Answered("autocrop", <<>>, Value(area), Value(Rounded(area)))
    /\ UNCHANGED handle

\* toString (): the width, the height and, when it is truthy, the base URI
toString ==
    /\ Ready
    /\ Return("toString", <<>>,
              Value(IF Truthy(baseURI)
                    THEN [name |-> "Rsvg", width |-> width, height |-> height,
                          baseURI |-> baseURI]
                    ELSE [name |-> "Rsvg", width |-> width, height |-> height]))
    /\ UNCHANGED handle

(***************************************************************************)
(* Rendering.                                                              *)
(***************************************************************************)
\* this._handle.render(w, h, format, id): the request handed over and what
\* the engine, producing `payload`, gave back.
EngineCall(w, h, format, id, payload) ==
    [req |-> <<w, h, format, id>>,
     res |-> EngineRender(handle, w, h, format, id, payload)]

\* _renderArgs with the format handed on as it was given.
_renderArgs_noFold(args, payload) ==
    LET format == Arg(args, 3)
    IN  [step |-> EngineCall(Arg(args, 1), Arg(args, 2),
                             IF Truthy(format) THEN format ELSE Null,
                             Arg(args, 4), payload),
         again |-> FALSE,
         options |-> Undef]

\* _renderArgs (width, height, format, id)
_renderArgs(args, payload) ==
    LET format == Arg(args, 3)
    IN  [step |-> EngineCall(Arg(args, 1), Arg(args, 2),
                             IF Truthy(format) THEN toLowerCase(format) ELSE Null,
                             Arg(args, 4), payload),
         again |-> FALSE,
         options |-> Undef]

\* render with the recursive call made without its argument.
render_retryBare(args, payload) ==
    IF Len(args) > 1 \/ TypeOf(Arg(args, 1)) # "object"
    THEN _renderArgs(args, payload)
    ELSE LET options == IF Truthy(args[1]) THEN args[1] ELSE EmptyObject
             img == EngineCall(Prop(options, "width"), Prop(options, "height"),
                               Prop(options, "format"), Prop(options, "id"), payload)
         IN  [step |-> img,
              again |-> /\ img.res.kind = "value"
                        /\ width + height > 0
                        /\ Len(img.res.value.data) = 0,
              options |-> Undef]

\* render with the retry not guarded by the document's size.
render_retryAlways(args, payload) ==
    IF Len(args) > 1 \/ TypeOf(Arg(args, 1)) # "object"
    THEN _renderArgs(args, payload)
    ELSE LET options == IF Truthy(args[1]) THEN args[1] ELSE EmptyObject
             img == EngineCall(Prop(options, "width"), Prop(options, "height"),
                               Prop(options, "format"), Prop(options, "id"), payload)
         IN  [step |-> img,
              again |-> /\ img.res.kind = "value"
                        /\ Len(img.res.value.data) = 0,
              options |-> options]

\* render (options), one activation, called with `args` while the engine
\* produces `payload`: the engine call it makes (step), whether it goes on
\* to call itself (again), and with which argument (options).  An exception
\* of the engine leaves the activation at once.
render(args, payload) ==
    IF Len(args) > 1 \/ TypeOf(Arg(args, 1)) # "object"
    THEN _renderArgs(args, payload)
    ELSE LET options == IF Truthy(args[1]) THEN args[1] ELSE EmptyObject
             img == EngineCall(Prop(options, "width"), Prop(options, "height"),
                               Prop(options, "format"), Prop(options, "id"), payload)
         IN  [step |-> img,
              again |-> /\ img.res.kind = "value"
                        /\ width + height > 0
                        /\ Len(img.res.value.data) = 0,
              options |-> options]

IsEmpty(res) == res.kind = "value" /\ Len(res.value.data) = 0

\* One activation of render with `args`, after the engine calls `before` of
\* which `k` came back empty.
Activate(args, before, k) ==
    \E payload \in Payloads :
        /\ payload = <<>> => k < MaxEmpty
        /\ LET r == render(args, payload)
           IN  /\ reqs' = Append(before, r.step.req)
               /\ empties' = IF IsEmpty(r.step.res) THEN k + 1 ELSE k
               /\ pc' = IF r.again THEN "render" ELSE "idle"
               /\ frame' = IF r.again THEN r.options ELSE Undef
               /\ ret' = IF r.again THEN Nothing ELSE r.step.res
        /\ ghost' = Touched
        /\ UNCHANGED <<phase, handle>>

\* The caller calls facade method `op` with `given`; the method calls
\* render with `args`.
Begin(op, given, args) ==
    /\ call' = [op |-> op, args |-> given, answer |-> Nothing]
    /\ Activate(args, <<>>, 0)

\* What the caller may ask for: a size (both left out, or 200 x 100), a
\* format (left out, empty, known in capitals, unknown), an id (left out, "#a").
SizeInputs == {<<Undef, Undef>>, <<Num(200), Num(100)>>}
RenderIds == {Undef, Str(<<"#", "a">>)}
FormatInputs == {Undef, Str(<<>>), Str(<<"P", "N", "G">>), Str(<<"B", "m", "p">>)}
OptionInputs ==
    {Null, EmptyObject}
        \cup {Obj([width |-> s[1], height |-> s[2], format |-> f, id |-> i]) :
                s \in SizeInputs, f \in FormatInputs, i \in RenderIds}

\* render(options), options an object or null
render_options(options) ==
    /\ Ready
    /\ Begin("render(options)", <<options>>, <<options>>)

\* render(width, height, format, id)
render_positional(w, h, format, id) ==
    /\ Ready
    /\ Begin("render(width, height, format, id)", <<w, h, format, id>>,
             <<w, h, format, id>>)

\* render()
render_noargs == Ready /\ Begin("render()", <<>>, <<>>)

\* return this.render(options), line 186
render_recurse ==
    /\ phase = "ready"
    /\ pc = "render"
    /\ Activate(<<frame>>, reqs, empties)
    /\ UNCHANGED call

renderRaw(w, h, id) ==
    /\ Ready
    /\ Begin("renderRaw", <<w, h, id>>,
             <<Obj([format |-> Str(<<"r", "a", "w">>), width |-> w, height |-> h,
                    element |-> id])>>)

renderPNG(w, h, id) ==
    /\ Ready
    /\ Begin("renderPNG", <<w, h, id>>,
             <<Obj([format |-> Str(<<"p", "n", "g">>), width |-> w, height |-> h,
                    element |-> id])>>)

renderPDF(w, h, id) ==
    /\ Ready
    /\ Begin("renderPDF", <<w, h, id>>,
             <<Obj([format |-> Str(<<"p", "d", "f">>), width |-> w, height |-> h,
                    element |-> id])>>)

renderSVG(w, h, id) ==
    /\ Ready
    /\ Begin("renderSVG", <<w, h, id>>,
             <<Obj([format |-> Str(<<"s", "v", "g">>), width |-> w, height |-> h,
                    element |-> id])>>)

Next ==
    \/ \E buffer \in CtorInputs : constructor(buffer)
    \/ get_baseURI
    \/ \E value \in BaseURIs : set_baseURI(value)
    \/ get_dpiX
    \/ \E value \in DPIInputs : set_dpiX(value)
    \/ get_dpiY
    \/ \E value \in DPIInputs : set_dpiY(value)
    \/ get_width
    \/ get_height
    \/ getDPI
    \/ \E x \in DPIInputs, y \in DPIInputs \cup {Undef} : setDPI(x, y)
    \/ \E id \in Ids : dimensions(id)
    \/ \E id \in Ids : hasElement(id)
    \/ autocrop
    \/ toString
    \/ \E options \in OptionInputs : render_options(options)
    \/ \E s \in SizeInputs, format \in FormatInputs, id \in RenderIds :
          render_positional(s[1], s[2], format, id)
    \/ render_noargs
    \/ render_recurse
    \/ \E s \in SizeInputs, id \in RenderIds : renderRaw(s[1], s[2], id)
    \/ \E s \in SizeInputs, id \in RenderIds : renderPNG(s[1], s[2], id)
    \/ \E s \in SizeInputs, id \in RenderIds : renderPDF(s[1], s[2], id)
    \/ \E s \in SizeInputs, id \in RenderIds : renderSVG(s[1], s[2], id)

Spec == Init /\ [][Next]_vars

(***************************************************************************)
(* The claims.                                                             *)
(***************************************************************************)
HelperOps == {"renderRaw", "renderPNG", "renderPDF", "renderSVG"}
RenderOps ==
    HelperOps \cup {"render(options)", "render(width, height, format, id)", "render()"}

HelperFormat(op) ==
    CASE op = "renderRaw" -> <<"r", "a", "w">>
      [] op = "renderPNG" -> <<"p", "n", "g">>
      [] op = "renderPDF" -> <<"p", "d", "f">>
      [] op = "renderSVG" -> <<"s", "v", "g">>

\* The call the caller made last has come back.
Returned == phase = "ready" /\ pc = "idle" /\ ret # Nothing

Fields == {"x", "y", "width", "height"}

\* v is a whole number of thousandths, and no other one is nearer to raw.
NearestThousandth(v, raw) == v % Scale = 0 /\ 2 * Abs(v - raw) <= Scale

\* C1: a legacy helper called with (width, height, id) hands the engine the
\* request (width, height, the helper's format, id), as render does for the
\* normalized request; the id the helper was given reaches the engine.
C1_HelperHandsOnId ==
    (phase = "ready" /\ call.op \in HelperOps) =>
        \A i \in DOMAIN reqs :
            reqs[i] = <<call.args[1], call.args[2], Str(HelperFormat(call.op)),
                        call.args[3]>>

\* C2, as stated: render(width, height, F, id) hands the engine exactly
\* (width, height, lowercase(F), id) for every format string F, and no
\* format when F is left out.
C2_PositionalFoldsEveryString ==
    (phase = "ready" /\ call.op = "render(width, height, format, id)") =>
        LET F == call.args[3]
        IN  reqs = << <<call.args[1], call.args[2],
                        IF F.t = "string" THEN toLowerCase(F) ELSE Null,
                        call.args[4]>> >>

\* C2, amended: render(width, height, F, id) calls the engine once, with
\* (width, height, lowercase(F), id) when F is a non-empty string and with
\* (width, height, null, id) when F is left out or empty; the lowercased
\* format holds no capital letter; the call gives the caller what the engine
\* gave, which for an unrecognized format is the UnsupportedFormat failure
\* and no result.
C2_PositionalFoldsNonEmpty ==
    (phase = "ready" /\ call.op = "render(width, height, format, id)") =>
        LET F == call.args[3]
            handed == IF F.t = "string" /\ F.v # <<>> THEN toLowerCase(F) ELSE Null
        IN  /\ pc = "idle"
            /\ reqs = << <<call.args[1], call.args[2], handed, call.args[4]>> >>
            /\ handed.t = "string" =>
                  /\ Len(handed.v) = Len(F.v)
                  /\ \A i \in DOMAIN handed.v, j \in DOMAIN UpperCase :
                        /\ handed.v[i] # UpperCase[j]
                        /\ F.v[i] \in {UpperCase[j], LowerCase[j]}
                              => handed.v[i] = LowerCase[j]
            /\ IF handed.t = "string" /\ handed.v \notin EngineFormats
               THEN ret.kind = "throw" /\ ret.name = "UnsupportedFormat"
               ELSE /\ ret.kind = "value"
                    /\ ret.value.format = IF handed.t = "string" THEN handed.v
                                          ELSE <<"r", "a", "w">>

\* C2's case: "PNG" given positionally reached the engine as "png", and the
\* engine's result came back.
C2_Witness ==
    /\ phase = "ready"
    /\ call.op = "render(width, height, format, id)"
    /\ call.args[3] = Str(<<"P", "N", "G">>)
    /\ reqs[1][3] = Str(<<"p", "n", "g">>)
    /\ ret.kind = "value"
    /\ ret.value.format = <<"p", "n", "g">>

\* C3: on a document with width + height > 0 no render call, whatever its
\* shape, gives the caller a result whose data is empty.
C3_NoShapeReturnsEmpty ==
    (Returned /\ call.op \in RenderOps /\ width + height > 0 /\ ret.kind = "value")
        => Len(ret.value.data) > 0

C5_EveryBoxRounded ==
    (Returned /\ call.op \in {"autocrop", "dimensions"} /\ ret.kind = "value") =>
        \A f \in Fields : NearestThousandth(ret.value[f], call.answer.value[f])

\* C5, amended: every box autocrop() gives the caller has each field at the
\* nearest whole thousandth of the engine's value, and rounding it again
\* changes nothing; dimensions(id?) gives the caller the engine's answer as
\* it is, rounded only if the engine's own values are.
C5_AutocropRoundedDimensionsAsIs ==
    /\ (Returned /\ call.op = "autocrop") =>
          /\ ret.kind = "value"
          /\ \A f \in Fields :
                /\ NearestThousandth(ret.value[f], call.answer.value[f])
                /\ TimesOne(toFixed(ret.value[f])) = ret.value[f]
    /\ (Returned /\ call.op = "dimensions") => ret = call.answer

\* C5's case: autocrop() came back with a box whose engine values lay off
\* the thousandths, one of them on a tie.
C5_Witness ==
    /\ Returned
    /\ call.op = "autocrop"
    /\ call.answer.value.x = -15
    /\ ret.value.x = -2 * Scale
    /\ call.answer.value.width = 12344
    /\ ret.value.width % Scale = 0
    /\ ret.value.width # call.answer.value.width

\* C6: whatever calls were made since the construction, a render under way
\* included, the width and height accessors give what they gave right after
\* the construction; after dpiX = v the engine's getDPI().x is v (300 for
\* 300, the default for a reset).
C6_SizeFixed ==
    phase = "ready" =>
        /\ width = ghost.width
        /\ height = ghost.height
        /\ call.op = "get width" => ret = Value(Num(ghost.width))
        /\ call.op = "get height" => ret = Value(Num(ghost.height))
        /\ call.op = "set dpiX" =>
              EngineGetDPI(handle).x =
                  IF call.args[1] = Num(300) THEN 300 ELSE DefaultDPI

\* C6's case: dpiX = 300 was set on a 100 x 100 document.
C6_Witness ==
    /\ phase = "ready"
    /\ call.op = "set dpiX"
    /\ call.args = <<Num(300)>>
    /\ EngineGetDPI(handle).x = 300
    /\ width = 100 /\ height = 100
    /\ ghost.width = 100 /\ ghost.height = 100

\* The request render(options) hands the engine for `options`.
RequestOf(options) ==
    <<Prop(options, "width"), Prop(options, "height"), Prop(options, "format"),
      Prop(options, "id")>>

\* C7: render(options) on a document with width + height > 0: every engine
\* call of it carries the request of `options`; while the engine's last
\* answer was empty the call has not come back, and each empty answer so far
\* was followed by one more engine call or is about to be; when it comes
\* back, after k empty answers, the engine was called k + 1 times and the
\* caller gets the engine's last answer, a result with data or a failure.
C7_RetryUntilNonEmpty ==
    (phase = "ready" /\ call.op = "render(options)" /\ width + height > 0) =>
        /\ \A i \in DOMAIN reqs : reqs[i] = RequestOf(call.args[1])
        /\ pc = "render" =>
              /\ ret = Nothing
              /\ empties >= 1
              /\ Len(reqs) = empties
              /\ RequestOf(frame) = RequestOf(call.args[1])
        /\ pc = "idle" =>
              /\ Len(reqs) = empties + 1
              /\ ret.kind \in {"value", "throw"}
              /\ ret.kind = "value" =>
                    /\ Len(ret.value.data) > 0
                    /\ \E payload \in Payloads :
                          ret = EngineRender(handle, reqs[Len(reqs)][1], reqs[Len(reqs)][2],
                                             reqs[Len(reqs)][3], reqs[Len(reqs)][4], payload)
              /\ ret.kind = "throw" => ret.name = "UnsupportedFormat"

\* C7's case: the engine answered empty MaxEmpty times and then with data.
C7_Witness ==
    /\ Returned
    /\ call.op = "render(options)"
    /\ call.args[1] \notin {Null, EmptyObject}
    /\ width + height > 0
    /\ empties = MaxEmpty
    /\ Len(reqs) = MaxEmpty + 1
    /\ ret.kind = "value"
    /\ Len(ret.value.data) > 0

\* C8, as stated: on a document whose width is 0 or whose height is 0,
\* render(options) calls the engine once and never calls itself again.
C8_NoRetryWhenEitherIsZero ==
    (phase = "ready" /\ call.op = "render(options)" /\ (width = 0 \/ height = 0)) =>
        pc = "idle" /\ Len(reqs) = 1

\* C8, amended: on a document whose width and height are both 0 (width +
\* height = 0), render(options) calls the engine once and gives the caller
\* the engine's answer as it is, an empty payload included.
C8_NoRetryWhenBothAreZero ==
    (phase = "ready" /\ call.op = "render(options)" /\ width + height = 0) =>
        /\ pc = "idle"
        /\ Len(reqs) = 1
        /\ reqs[1] = RequestOf(call.args[1])
        /\ ret.kind \in {"value", "throw"}
        /\ ret.kind = "value" => (Len(ret.value.data) = 0 <=> empties = 1)
        /\ \E payload \in Payloads :
              ret = EngineRender(handle, reqs[1][1], reqs[1][2], reqs[1][3],
                                 reqs[1][4], payload)

\* C8's case: a 0 x 0 document, the engine's empty payload given to the caller.
C8_Witness ==
    /\ Returned
    /\ call.op = "render(options)"
    /\ width = 0 /\ height = 0
    /\ ret.kind = "value"
    /\ Len(ret.value.data) = 0
    /\ empties = 1

\* C9: once constructed, the engine was asked to parse once and to release
\* the load resources once, no call reached the handle before the release,
\* and no later call releases again; the facade then takes every query and
\* render; a release that fails, like a parse that fails, ends the
\* construction with the load failure and no object.
C9_LoadThenRelease ==
    /\ phase = "new" => ghost.parse = 0 /\ ghost.close = 0
    /\ phase = "ready" =>
          /\ ghost.parse = 1 /\ ghost.close = 1
          /\ ~ghost.early
          /\ handle.stage = "ready"
          /\ pc = "idle" =>
                /\ ENABLED get_width
                /\ ENABLED autocrop
                /\ ENABLED render_noargs
                /\ \A id \in Ids : ENABLED dimensions(id) /\ ENABLED hasElement(id)
    /\ phase = "failed" =>
          /\ handle = NoHandle
          /\ ~ghost.early
          /\ call.answer # Nothing =>
                /\ ghost.parse = 1
                /\ ghost.close = IF call.answer.parse.ok THEN 1 ELSE 0
                /\ call.answer.parse.ok =>
                      /\ ~call.answer.close.ok
                      /\ ret = Throw("Error", <<"Rsvg load failure: ",
                                                call.answer.close.message>>)

\* C9's case: a render came back from a facade whose load phase was closed.
C9_Witness ==
    /\ Returned
    /\ call.op = "render(options)"
    /\ ret.kind = "value"
    /\ ghost.parse = 1 /\ ghost.close = 1
    /\ handle.stage = "ready"

\* C10: render() with no argument, on a document with width + height > 0,
\* never gives the caller a result whose data is empty, as render({}) and
\* render(null) never do.
C10_NoArgsNeverEmpty ==
    (Returned /\ call.op = "render()" /\ width + height > 0 /\ ret.kind = "value")
        => Len(ret.value.data) > 0

====
